---- MODULE Spec2Model ----
(***************************************************************************)
(* Multi-session WhatsApp connection manager (src/unnamed/part_002), and   *)
(* the ensureInstance() server (src/data/whatsapp_baileys_multi.js), which *)
(* is another process with a state of its own (the variable multi).        *)
(*                                                                         *)
(* The model follows the JavaScript run-to-completion semantics: one       *)
(* action is one macrotask (a request handler up to its first real await,  *)
(* a timer callback, a transport event handler) together with the promise  *)
(* continuations it resolves synchronously (a release() that admits the    *)
(* next waiter runs that waiter's start() prefix in the same step).        *)
(***************************************************************************)
EXTENDS Naturals, Integers, Sequences, FiniteSets, TLC

VARIABLES
    registered,   \* userSessions.has(userId)
    sess,         \* the fields of each UserWhatsAppSession object
    timers,       \* pending setTimeout callbacks that call start() on a session
    creds,        \* sessions/<authFolder>/creds.json present on disk
    socks,        \* every transport socket made by makeWASocket
    current,      \* ConnectionSemaphore.current
    queue,        \* ConnectionSemaphore.queue: the start() executions waiting
    holding,      \* the start() executions between acquire() and release()
    calls,        \* the forceQR() and requestPairingCode() calls in progress
    multi,        \* whatsapp_baileys_multi.js: instances, ensureLocks, the
                  \* ensureInstance() calls, the sockets and the auth folders
    hist          \* history: whether the last step was the heartbeat forcing a
                  \* session to disconnected, and which sessions had a
                  \* terminal close since they were created; and the run's
                  \* bound on start() executions in progress; and the time
                  \* since each session's QR was cached

vars == <<registered, sess, timers, creds, socks, current, queue, holding, calls,
          multi, hist>>

----------------------------------------------------------------------------
\* Bounds of the model. Spec: every operation and transport event.
NumUsers == 1      \* tenant ids
MaxSocks == 2      \* sockets created in one run
MaxExec == 3       \* start() executions in progress at once
MaxTimers == 2     \* pending start() timers of one session
\* GateSpec: the operations that call start(), many tenants.
GateUsers == 3
GateSocks == 3
GateExec == 3
\* QueueSpec: the same operations, a longer wait queue.
QueueUsers == 2
QueueSocks == 1
QueueExec == 4

\* PairSpec: requestPairingCode() next to start().
PairUsers == 1
PairSocks == 2
PairExec == 1
\* PollSpec: forceQR() next to start().
PollUsers == 1
PollSocks == 2
PollExec == 3

\* MultiSpec: the ensureInstance() server (src/data/whatsapp_baileys_multi.js).
MultiIds == 1      \* instance ids
MultiCalls == 3    \* ensureInstance() calls made in one run
MultiSocks == 2    \* sockets created for one id in one run
MultiUsers == 1
MultiExec == 2

\* TenantSpec: two tenants and the operations that can fail on one of them.
TenantUsers == 2
TenantSocks == 1
TenantExec == 3

\* ClockSpec: the age of the cached QR, in ticks; QrTtl is the TTL and the
\* value at which the clock stops counting.
ClockUsers == 1
ClockSocks == 2
ClockExec == 2
QrTtl == 2

\* new ConnectionSemaphore(2)
maxConcurrent == 2

\* Baileys DisconnectReason values used by the close handler.
loggedOut == 401
badSession == 500
multideviceMismatch == 411
restartRequired == 515
timedOut == 408
connectionClosed == 428
connectionReplaced == 440

\* the tenant ids and the socket ids of the run
Users == DOMAIN registered
SockIds == DOMAIN socks
\* what the caller of a start() does when it returns: forceQR() polls
Conts == {"none", "forceQR"}
\* a start() execution: the session, its forceNew argument, its caller
Execs == [user : Users, force : BOOLEAN, cont : Conts]

StatusCodes == {loggedOut, badSession, multideviceMismatch, restartRequired,
                timedOut, connectionClosed, connectionReplaced,
                503}    \* 503: a code no branch of the handler names
\* lastDisconnect.error.message, by the substrings the handler looks for
Messages == {"other", "stream errored", "Connection Terminated"}

\* the state after `new UserWhatsAppSession(userId)`
UserWhatsAppSession ==
    [ sock |-> 0,
      qrCodeData |-> FALSE,
      isConnected |-> FALSE,
      connectionState |-> "disconnected",
      reconnectTimeout |-> FALSE,
      heartbeatInterval |-> FALSE,
      reconnectAttempts |-> 0,
      pairingCode |-> FALSE,
      phoneNumber |-> FALSE,
      heartbeatFailures |-> 0,
      probing |-> FALSE ]

\* no forceQR() and no requestPairingCode() in progress.
\* fq: "starting" while forceQR() awaits start(true), "polling" while checkQR
\* is scheduled; attempts is checkQR's counter.
\* pr: requestPairingCode() is "ending" during the 1 s wait after sock.end(),
\* "cleaned" from the credential wipe to makeWASocket, "up" afterwards; t3 and
\* t30 are its 3 s and 30 s timers ("asked": the pairing request is with the
\* transport); result is what the promise resolved with.
NoCalls ==
    [ fq |-> [pc |-> "idle", attempts |-> 0],
      pr |-> [pc |-> "idle", t3 |-> "off", t30 |-> "off", result |-> "none"] ]

\* no pending timer: tracked is the timer reconnectTimeout refers to
NoTimers == [tracked |-> "none", looseF |-> 0, looseT |-> 0]
\* by: the function that made the socket and registered its handlers
NoSock == [owner |-> 0, st |-> "none", by |-> "start"]
\* the last step was not the heartbeat forcing a session to disconnected
NoLabel == [op |-> "none", user |-> 0, closed |-> FALSE]

\* no ensureInstance() call made in this slot
NoCall == [id |-> 0, pc |-> "free", run |-> 0, val |-> 0]

\* whatsapp_baileys_multi.js after its module code ran: both maps are empty.
\* instances[id] is the socket the registered data object holds (0: no
\* entry); ensureLocks[id] is the call whose promise the lock holds (0: no
\* lock); closing counts the close handlers that are in their await; torn
\* (history) says that the id's instance was taken down on purpose.
NoMulti ==
    [ instances |-> [id \in 1..MultiIds |-> 0],
      ensureLocks |-> [id \in 1..MultiIds |-> 0],
      call |-> [c \in 1..MultiCalls |-> NoCall],
      sock |-> [id \in 1..MultiIds |-> [n \in 1..MultiSocks |-> "none"]],
      auth |-> [id \in 1..MultiIds |-> FALSE],
      closing |-> [id \in 1..MultiIds |-> [logout |-> 0, retry |-> 0]],
      torn |-> [id \in 1..MultiIds |-> FALSE] ]

\* The whole state as one record, so that a handler is a function on states.
Cur ==
    [ registered |-> registered, sess |-> sess, timers |-> timers,
      creds |-> creds, socks |-> socks, current |-> current,
      queue |-> queue, holding |-> holding, calls |-> calls,
      hist |-> [hist EXCEPT !.last = NoLabel] ]

Set(st) ==
    /\ registered' = st.registered
    /\ sess' = st.sess
    /\ timers' = st.timers
    /\ creds' = st.creds
    /\ socks' = st.socks
    /\ current' = st.current
    /\ queue' = st.queue
    /\ multi' = multi
    /\ holding' = st.holding
    /\ calls' = st.calls
    /\ hist' = st.hist

Min(S) == CHOOSE x \in S : \A y \in S : x <= y

PendingTimers(st, u) ==
    st.timers[u].looseF + st.timers[u].looseT
        + (IF st.timers[u].tracked = "none" THEN 0 ELSE 1)

RECURSIVE Sum(_, _)
Sum(f, S) == IF S = {} THEN 0
             ELSE LET x == CHOOSE y \in S : TRUE IN f[x] + Sum(f, S \ {x})

\* start() executions in progress, and how many more the model admits
Executions(st) == Len(st.queue) + Sum(st.holding, DOMAIN st.holding)
SpareExecs(st) == st.hist.execs - Executions(st)
FreeSocks(st) == {k \in DOMAIN st.socks : st.socks[k].st = "none"}
LiveSocks(st, u) ==
    {k \in DOMAIN st.socks :
        st.socks[k].owner = u /\ st.socks[k].st \in {"connecting", "open"}}

----------------------------------------------------------------------------
\* clearTimeout(this.reconnectTimeout): the handle keeps its value
clearTimeout(st, u) ==
    [st EXCEPT !.timers[u].tracked = "none"]

\* this.reconnectTimeout = setTimeout(() => this.start(force), ms): a timer the
\* handle referred to and that is still pending stays pending, unreferenced
setReconnectTimeout(st, u, force) ==
    LET old == st.timers[u].tracked
        t1 == [st.timers[u] EXCEPT
                 !.looseF = IF old = "false" THEN @ + 1 ELSE @,
                 !.looseT = IF old = "true" THEN @ + 1 ELSE @,
                 !.tracked = IF force THEN "true" ELSE "false"]
    IN  [st EXCEPT !.timers[u] = t1, !.sess[u].reconnectTimeout = TRUE]

\* setTimeout(() => this.start(force), ms) whose handle is not kept
setLooseTimeout(st, u, force) ==
    IF force THEN [st EXCEPT !.timers[u].looseT = @ + 1]
             ELSE [st EXCEPT !.timers[u].looseF = @ + 1]

\* start(): from the resolution of acquire() to `await useMultiFileAuthState`
startBody(st, u, force) ==
    LET s1 == IF st.sess[u].reconnectTimeout THEN clearTimeout(st, u) ELSE st
    IN  IF force
        THEN [s1 EXCEPT !.creds[u] = FALSE,
                        !.sess[u].qrCodeData = FALSE,
                        !.sess[u].connectionState = "generating_qr"]
        ELSE s1

\* the waiters of the queue, by the id each got when it was queued
QueueIds(q) == {q[i].id : i \in DOMAIN q}

\* a waiter leaves the queue: the others no longer have it ahead of them
Leave(q, w) ==
    LET rest == SelectSeq(q, LAMBDA x : x.id # w.id)
    IN  [i \in DOMAIN rest |-> [rest[i] EXCEPT !.ahead = @ \ {w.id}]]

\* acquire() with the waiter put at the front of the queue (unshift for push)
acquireFront(st, e) ==
    LET w == [user |-> e.user, force |-> e.force, cont |-> e.cont,
              id |-> Min((1..st.hist.execs) \ QueueIds(st.queue)),
              ahead |-> QueueIds(st.queue)]
    IN  IF st.current < maxConcurrent
        THEN startBody([st EXCEPT !.current = @ + 1, !.holding[e] = @ + 1],
                       e.user, e.force)
        ELSE [st EXCEPT !.queue = <<w>> \o @]

\* ConnectionSemaphore.acquire() called by the start() execution e; a
\* waiter records who was waiting when it arrived
acquire(st, e) ==
    LET w == [user |-> e.user, force |-> e.force, cont |-> e.cont,
              id |-> Min((1..st.hist.execs) \ QueueIds(st.queue)),
              ahead |-> QueueIds(st.queue)]
    IN  IF st.current < maxConcurrent
        THEN startBody([st EXCEPT !.current = @ + 1, !.holding[e] = @ + 1],
                       e.user, e.force)
        ELSE [st EXCEPT !.queue = Append(@, w)]

\* release() that resolves the newest waiter (pop for shift)
releaseLast(st) ==
    LET s1 == [st EXCEPT !.current = @ - 1]
    IN  IF Len(s1.queue) > 0
        THEN LET next == s1.queue[Len(s1.queue)]
                 e == [user |-> next.user, force |-> next.force,
                       cont |-> next.cont]
             IN  startBody([s1 EXCEPT !.queue = Leave(@, next),
                                      !.current = @ + 1,
                                      !.holding[e] = @ + 1],
                           next.user, next.force)
        ELSE s1

\* release() that resolves the first waiter and leaves it in the queue
\* (queue[0] for shift)
releasePeek(st) ==
    LET s1 == [st EXCEPT !.current = @ - 1]
    IN  IF Len(s1.queue) > 0
        THEN LET next == Head(s1.queue)
                 e == [user |-> next.user, force |-> next.force,
                       cont |-> next.cont]
             IN  startBody([s1 EXCEPT !.current = @ + 1,
                                      !.holding[e] = @ + 1],
                           next.user, next.force)
        ELSE s1

\* release() that admits the waiter without counting it (no `this.current++`)
releaseUncounted(st) ==
    LET s1 == [st EXCEPT !.current = @ - 1]
    IN  IF Len(s1.queue) > 0
        THEN LET next == Head(s1.queue)
                 e == [user |-> next.user, force |-> next.force,
                       cont |-> next.cont]
             IN  startBody([s1 EXCEPT !.queue = Leave(@, next),
                                      !.holding[e] = @ + 1],
                           next.user, next.force)
        ELSE s1

\* ConnectionSemaphore.release(): the admitted waiter's start() goes on
release(st) ==
    LET s1 == [st EXCEPT !.current = @ - 1]
    IN  IF Len(s1.queue) > 0
        THEN LET next == Head(s1.queue)
                 e == [user |-> next.user, force |-> next.force,
                       cont |-> next.cont]
             IN  startBody([s1 EXCEPT !.queue = Leave(@, next),
                                      !.current = @ + 1,
                                      !.holding[e] = @ + 1],
                           next.user, next.force)
        ELSE s1

\* session.start(force) is called by a caller that goes on with cont
startThen(st, u, force, cont) ==
    acquire(st, [user |-> u, force |-> force, cont |-> cont])

\* session.start(force) is called and its result is not waited for, or the
\* caller only answers its request when it returns
start(st, u, force) == startThen(st, u, force, "none")

\* this.sock = makeWASocket(...) followed by the registration of the handlers
\* of `by`: this.sock is overwritten
makeSocket(st, u, by) ==
    LET k == Min(FreeSocks(st))
    IN  [st EXCEPT !.socks[k] = [owner |-> u, st |-> "connecting", by |-> by],
                   !.sess[u].sock = k]

\* makeWASocket(...) in start()
makeWASocket(st, u) == makeSocket(st, u, "start")

\* start() returned to its caller: forceQR() goes on to
\* `setTimeout(checkQR, 100)`
startReturned(st, e) ==
    IF e.cont = "forceQR"
    THEN [st EXCEPT !.calls[e.user].fq = [pc |-> "polling", attempts |-> 0]]
    ELSE st

\* start() whose release() is at the end of the try block, not in finally
startFinishLeak(st, e, ok) ==
    LET s1 == [st EXCEPT !.holding[e] = @ - 1]
    IN  startReturned(
            IF ok THEN release(makeWASocket(s1, e.user))
            ELSE [s1 EXCEPT !.sess[e.user].connectionState = "error"], e)

\* start(): from `await useMultiFileAuthState` to the end (catch, finally)
startFinish(st, e, ok) ==
    LET s1 == IF ok THEN makeWASocket(st, e.user)
                    ELSE [st EXCEPT !.sess[e.user].connectionState = "error"]
    IN  startReturned(release([s1 EXCEPT !.holding[e] = @ - 1]), e)

----------------------------------------------------------------------------
\* the process has started: no session, no socket; the sessions directory
\* holds what earlier runs left
InitFor(U, K, E) ==
    /\ registered = [u \in U |-> FALSE]
    /\ sess = [u \in U |-> UserWhatsAppSession]
    /\ timers = [u \in U |-> NoTimers]
    /\ creds \in [U -> BOOLEAN]
    /\ socks = [k \in K |-> NoSock]
    /\ current = 0
    /\ queue = <<>>
    /\ holding = [e \in [user : U, force : BOOLEAN, cont : Conts] |-> 0]
    /\ calls = [u \in U |-> NoCalls]
    /\ multi = NoMulti
    /\ hist = [last |-> NoLabel, terminal |-> [u \in U |-> FALSE], execs |-> E,
               qrAge |-> [u \in U |-> 0]]

Init == InitFor(1..NumUsers, 1..MaxSocks, MaxExec)
GateInit == InitFor(1..GateUsers, 1..GateSocks, GateExec)
QueueInit == InitFor(1..QueueUsers, 1..QueueSocks, QueueExec)
PairInit == InitFor(1..PairUsers, 1..PairSocks, PairExec)
PollInit == InitFor(1..PollUsers, 1..PollSocks, PollExec)
ClockInit == InitFor(1..ClockUsers, 1..ClockSocks, ClockExec)

\* no requestPairingCode() in progress: none was made, or the promise is
\* settled and both timers have run
CallOver(pr) ==
    \/ pr.pc = "idle"
    \/ pr.pc = "up" /\ pr.t3 = "done" /\ pr.t30 = "done"

\* a removed session object that can do nothing any more
Quiescent(st, u) ==
    /\ LiveSocks(st, u) = {}
    /\ PendingTimers(st, u) = 0
    /\ \A e \in Execs : e.user = u =>
           st.holding[e] = 0 /\ \A i \in DOMAIN st.queue : st.queue[i].user # u
    /\ ~st.sess[u].probing
    /\ st.calls[u].fq.pc = "idle"
    /\ CallOver(st.calls[u].pr)

\* getUserSession(userId)
getUserSession(st, u) ==
    IF st.registered[u] THEN st
    ELSE setLooseTimeout([st EXCEPT !.registered[u] = TRUE,
                                    !.sess[u] = UserWhatsAppSession,
                                    !.timers[u] = NoTimers,
                                    !.calls[u] = NoCalls,
                                    !.hist.terminal[u] = FALSE,
                                    !.hist.qrAge[u] = 0],
                         u, ~st.creds[u])

\* any route that only looks the session up (lazy creation)
GetUserSession(u) ==
    /\ ~registered[u]
    /\ Quiescent(Cur, u)
    /\ Set(getUserSession(Cur, u))

\* a pending timer fires and calls start()
TimerFire(u, which) ==
    /\ SpareExecs(Cur) > 0
    /\ \/ /\ which = "tracked"
          /\ timers[u].tracked # "none"
          /\ Set(start([Cur EXCEPT !.timers[u].tracked = "none"], u,
                       timers[u].tracked = "true"))
       \/ /\ which = "looseF"
          /\ timers[u].looseF > 0
          /\ Set(start([Cur EXCEPT !.timers[u].looseF = @ - 1], u, FALSE))
       \/ /\ which = "looseT"
          /\ timers[u].looseT > 0
          /\ Set(start([Cur EXCEPT !.timers[u].looseT = @ - 1], u, TRUE))

----------------------------------------------------------------------------
\* startHeartbeat(): lines 335-345, the interval is (re)armed
startHeartbeat(st, u) ==
    [st EXCEPT !.sess[u].heartbeatInterval = TRUE]

\* the close handler's !statusList.includes(statusCode)
shouldReconnect(code) ==
    code \notin {loggedOut, badSession, multideviceMismatch}

\* `connection === 'close'` of the handler start() registers
onClose(st, u, code, msg) ==
    LET s1 == [st EXCEPT !.sess[u].isConnected = FALSE,
                         !.sess[u].connectionState = "disconnected",
                         !.sess[u].qrCodeData =
                             IF code # timedOut /\ code # connectionClosed
                             THEN FALSE ELSE @,
                         !.hist.terminal[u] = @ \/ ~shouldReconnect(code)]
    IN  IF code = restartRequired \/ msg = "stream errored"
          THEN setReconnectTimeout(s1, u, FALSE)
        ELSE IF code = timedOut
          THEN setReconnectTimeout(s1, u, FALSE)
        ELSE IF code = connectionClosed \/ msg = "Connection Terminated"
          THEN setReconnectTimeout(s1, u, FALSE)
        ELSE IF code = 401
          THEN setReconnectTimeout(s1, u, TRUE)
        ELSE IF code = connectionReplaced
          THEN setReconnectTimeout(s1, u, FALSE)
        ELSE IF shouldReconnect(code)
          THEN setReconnectTimeout(s1, u, FALSE)
        ELSE s1

\* `connection === 'open'` of the handler start() registers
onOpen(st, u) ==
    LET s1 == [st EXCEPT !.sess[u].isConnected = TRUE,
                         !.sess[u].connectionState = "connected",
                         !.sess[u].qrCodeData = FALSE,
                         !.sess[u].pairingCode = FALSE,
                         !.sess[u].reconnectAttempts = 0]
        s2 == IF s1.sess[u].reconnectTimeout
              THEN [clearTimeout(s1, u) EXCEPT !.sess[u].reconnectTimeout = FALSE]
              ELSE s1
    IN  startHeartbeat(s2, u)

\* the catch branch with `heartbeatFailures >= 2`
heartbeatFailedAtTwo(st, u, closed) ==
    LET n == st.sess[u].heartbeatFailures + 1
    IN  IF n >= 2
        THEN LET s1 == [st EXCEPT !.sess[u].isConnected = FALSE,
                                  !.sess[u].connectionState = "disconnected",
                                  !.sess[u].heartbeatInterval = FALSE,
                                  !.sess[u].heartbeatFailures = 0,
                                  !.hist.last = [op |-> "heartbeatDown", user |-> u,
                                                 closed |-> closed]]
             IN  IF closed THEN setLooseTimeout(s1, u, FALSE) ELSE s1
        ELSE [st EXCEPT !.sess[u].heartbeatFailures = n]

\* the catch branch with the reconnect timer set outside the message test
heartbeatFailedAlways(st, u, closed) ==
    LET n == st.sess[u].heartbeatFailures + 1
    IN  IF n >= 3
        THEN setLooseTimeout(
                 [st EXCEPT !.sess[u].isConnected = FALSE,
                            !.sess[u].connectionState = "disconnected",
                            !.sess[u].heartbeatInterval = FALSE,
                            !.sess[u].heartbeatFailures = 0,
                            !.hist.last = [op |-> "heartbeatDown", user |-> u,
                                           closed |-> closed]],
                 u, FALSE)
        ELSE [st EXCEPT !.sess[u].heartbeatFailures = n]

\* the heartbeat's catch branch, lines 367-401; closed: the error message
\* contains 'Connection Closed' or 'closed'
heartbeatFailed(st, u, closed) ==
    LET n == st.sess[u].heartbeatFailures + 1
    IN  IF n >= 3
        THEN LET s1 == [st EXCEPT !.sess[u].isConnected = FALSE,
                                  !.sess[u].connectionState = "disconnected",
                                  !.sess[u].heartbeatInterval = FALSE,
                                  !.sess[u].heartbeatFailures = 0,
                                  !.hist.last = [op |-> "heartbeatDown", user |-> u,
                                                 closed |-> closed]]
             IN  IF closed THEN setLooseTimeout(s1, u, FALSE) ELSE s1
        ELSE [st EXCEPT !.sess[u].heartbeatFailures = n]

\* the heartbeat's probe settled, lines 364-401
heartbeatResult(st, u, outcome) ==
    LET s1 == [st EXCEPT !.sess[u].probing = FALSE]
    IN  IF outcome = "ok"
        THEN [s1 EXCEPT !.sess[u].heartbeatFailures = 0]
        ELSE heartbeatFailed(s1, u, outcome = "closed")

\* sendMessage() with the reconnect of its catch block outside the test of
\* the error message
sendMessageAnyError(st, u, outcome) ==
    IF outcome = "ok"
    THEN IF ~st.sess[u].isConnected
         THEN [st EXCEPT !.sess[u].isConnected = TRUE,
                         !.sess[u].connectionState = "connected"]
         ELSE st
    ELSE setLooseTimeout([st EXCEPT !.sess[u].isConnected = FALSE,
                                    !.sess[u].connectionState = "disconnected",
                                    !.sess[u].heartbeatInterval = FALSE],
                         u, FALSE)

\* sendMessage(): lines 268-309, by the result of sock.sendMessage
sendMessage(st, u, outcome) ==
    IF outcome = "ok"
    THEN IF ~st.sess[u].isConnected
         THEN [st EXCEPT !.sess[u].isConnected = TRUE,
                         !.sess[u].connectionState = "connected"]
         ELSE st
    ELSE IF outcome = "closed"
    THEN setLooseTimeout([st EXCEPT !.sess[u].isConnected = FALSE,
                                    !.sess[u].connectionState = "disconnected",
                                    !.sess[u].heartbeatInterval = FALSE],
                         u, FALSE)
    ELSE st

\* sendMessage() reached whatever the session holds
sendRouteUnchecked(st, u, outcome) ==
    [sendMessage(st, u, outcome) EXCEPT
        !.hist.last = [op |-> IF st.sess[u].isConnected THEN "send"
                              ELSE "sendAnyway",
                       user |-> u, closed |-> outcome = "closed"]]

\* POST /send/:userId: lines 754-769 answer with an error when the session
\* or its socket is missing; otherwise sendMessage() calls sock.sendMessage,
\* also for a session that is not marked connected (lines 771-776, 256-259)
sendRoute(st, u, outcome) ==
    IF ~st.registered[u] \/ st.sess[u].sock = 0
    THEN [st EXCEPT !.hist.last = [op |-> "sendRefused", user |-> u,
                                   closed |-> FALSE]]
    ELSE [sendMessage(st, u, outcome) EXCEPT
            !.hist.last = [op |-> IF st.sess[u].isConnected THEN "send"
                                  ELSE "sendAnyway",
                           user |-> u, closed |-> outcome = "closed"]]

\* the socket ended: no handler of it runs again
ended(st, k) ==
    [st EXCEPT !.socks[k] = [owner |-> 0, st |-> "closed", by |-> "start"]]

\* resolve(r) of the promise requestPairingCode() returned: only the first
\* call settles it
resolve(st, u, r) ==
    IF st.calls[u].pr.result = "none"
    THEN [st EXCEPT !.calls[u].pr.result = r]
    ELSE st

\* `connection === 'open'` of the handler requestPairingCode() registers
onPairingOpen(st, u) ==
    startHeartbeat([st EXCEPT !.sess[u].isConnected = TRUE,
                              !.sess[u].connectionState = "connected",
                              !.sess[u].qrCodeData = FALSE,
                              !.sess[u].pairingCode = FALSE], u)

\* `connection === 'close'` of the handler requestPairingCode() registers;
\* mine: the socket is the one of the call in progress (an older call's
\* promise is settled or gone)
onPairingClose(st, u, code, mine) ==
    LET s1 == [st EXCEPT !.sess[u].isConnected = FALSE,
                         !.sess[u].connectionState = "disconnected"]
    IN  IF mine /\ code # 401 /\ code # 515 /\ ~s1.sess[u].pairingCode
        THEN resolve(s1, u, "error")
        ELSE s1

\* socket k ends with lastDisconnect (code, msg): the close handler that was
\* registered on it runs
closeEvent(st, k, code, msg) ==
    LET u == st.socks[k].owner
        by == st.socks[k].by
    IN  IF by = "start" THEN onClose(ended(st, k), u, code, msg)
        ELSE onPairingClose(ended(st, k), u, code, by = "pairing")

\* this.sock.end() in forceQR() and requestPairingCode(): a live socket ends
\* with no error (statusCode undefined, modelled 0; message 'Unknown error')
endSock(st, u) ==
    LET k == st.sess[u].sock
    IN  IF k # 0 /\ st.socks[k].st \in {"connecting", "open"}
        THEN closeEvent(st, k, 0, "other")
        ELSE st

\* disconnect(): lines 313-322, the timers are cleared
disconnectTimers(st, u) ==
    LET s1 == IF st.sess[u].reconnectTimeout
              THEN [clearTimeout(st, u) EXCEPT !.sess[u].reconnectTimeout = FALSE]
              ELSE st
    IN  [s1 EXCEPT !.sess[u].heartbeatInterval = FALSE]

\* disconnect(): lines 328-332, after logout() resolved
disconnectFields(st, u) ==
    [st EXCEPT !.sess[u].isConnected = FALSE,
               !.sess[u].connectionState = "disconnected",
               !.sess[u].qrCodeData = FALSE,
               !.sess[u].pairingCode = FALSE,
               !.sess[u].sock = 0]

\* session.disconnect(); logout() ends a live socket with loggedOut, which
\* runs the close handler; on an ended socket it resolves or throws (thrown)
disconnect(st, u, thrown) ==
    LET s1 == disconnectTimers(st, u)
        k == st.sess[u].sock
    IN  IF k = 0 THEN disconnectFields(s1, u)
        ELSE IF s1.socks[k].st \in {"connecting", "open"}
        THEN disconnectFields(closeEvent(s1, k, loggedOut, "other"), u)
        ELSE IF thrown THEN s1
        ELSE disconnectFields(s1, u)

\* the route without its `if (session)` test
disconnectRouteUnchecked(st, u, thrown) ==
    LET s1 == disconnect(st, u, thrown)
        k == st.sess[u].sock
    IN  IF ~st.registered[u]
        THEN [s1 EXCEPT !.hist.last = [op |-> "disconnectAbsent", user |-> u,
                                       closed |-> FALSE]]
        ELSE IF thrown /\ k # 0 /\ st.socks[k].st = "closed"
        THEN s1
        ELSE [s1 EXCEPT !.registered[u] = FALSE]

\* POST /disconnect/:userId; an id that is not in userSessions gets the
\* success answer with nothing done
disconnectRoute(st, u, thrown) ==
    LET s1 == disconnect(st, u, thrown)
        k == st.sess[u].sock
    IN  IF ~st.registered[u]
        THEN [st EXCEPT !.hist.last = [op |-> "disconnectAbsent", user |-> u,
                                       closed |-> FALSE]]
        ELSE IF thrown /\ k # 0 /\ st.socks[k].st = "closed"
        THEN s1
        ELSE [s1 EXCEPT !.registered[u] = FALSE]

\* getStatus(): lines 617-626, the correction of isConnected
getStatus(st, u) ==
    IF st.sess[u].isConnected /\ st.sess[u].sock = 0
    THEN [st EXCEPT !.sess[u].isConnected = FALSE,
                    !.sess[u].connectionState = "disconnected"]
    ELSE st

\* getStatus(): lines 628-637, the object it returns
statusView(st, u) ==
    LET s1 == getStatus(st, u)
    IN  [ connected |-> s1.sess[u].isConnected,
          state |-> s1.sess[u].connectionState,
          qrCode |-> s1.sess[u].qrCodeData,
          pairingCode |-> s1.sess[u].pairingCode ]

\* GET /status/:userId; ok: the connection test sock.query() resolved
statusRoute(st, u, ok) ==
    LET s1 == getStatus(getUserSession(st, u), u)
    IN  IF s1.sess[u].isConnected /\ s1.sess[u].sock # 0 /\ ~ok
        THEN [s1 EXCEPT !.sess[u].isConnected = FALSE,
                        !.sess[u].connectionState = "disconnected"]
        ELSE s1

\* checkQR of forceQR() gives up at this count
maxAttempts == 20

\* forceQR(): lines 556-586, up to `await useMultiFileAuthState` in start(true)
forceQR(st, u) ==
    LET s1 == IF st.sess[u].reconnectTimeout
              THEN [clearTimeout(st, u) EXCEPT !.sess[u].reconnectTimeout = FALSE]
              ELSE st
        s2 == IF s1.sess[u].sock # 0
              THEN [endSock(s1, u) EXCEPT !.sess[u].sock = 0]
              ELSE s1
        s3 == [s2 EXCEPT !.sess[u].isConnected = FALSE,
                         !.sess[u].connectionState = "generating_qr",
                         !.sess[u].qrCodeData = FALSE,
                         !.sess[u].pairingCode = FALSE,
                         !.calls[u].fq = [pc |-> "starting", attempts |-> 0],
                         !.hist.terminal[u] = FALSE]
    IN  startThen(s3, u, TRUE, "forceQR")

\* checkQR without its `attempts >= maxAttempts` branch
checkQRForever(st, u) ==
    LET n == st.calls[u].fq.attempts + 1
    IN  IF st.sess[u].qrCodeData \/ st.sess[u].connectionState = "error"
        THEN [st EXCEPT !.calls[u].fq = NoCalls.fq]
        ELSE [st EXCEPT !.calls[u].fq.attempts =
                            IF n >= maxAttempts THEN @ ELSE n]

\* checkQR: lines 593-605; the call is over when the promise settles
checkQR(st, u) ==
    LET n == st.calls[u].fq.attempts + 1
    IN  IF st.sess[u].qrCodeData \/ n >= maxAttempts
           \/ st.sess[u].connectionState = "error"
        THEN [st EXCEPT !.calls[u].fq = NoCalls.fq]
        ELSE [st EXCEPT !.calls[u].fq.attempts = n]

\* reconnect(): disconnect() then start(true)
reconnect(st, u, thrown) ==
    LET s1 == disconnect(st, u, thrown)
        k == st.sess[u].sock
    IN  IF thrown /\ k # 0 /\ st.socks[k].st = "closed"
        THEN s1
        ELSE start([s1 EXCEPT !.hist.terminal[u] = FALSE], u, TRUE)

\* requestPairingCode(): lines 440-466, the fields and the credentials
pairingClean(st, u) ==
    [st EXCEPT !.sess[u].sock = 0,
               !.sess[u].isConnected = FALSE,
               !.sess[u].connectionState = "generating_pairing_code",
               !.sess[u].qrCodeData = FALSE,
               !.sess[u].pairingCode = FALSE,
               !.creds[u] = FALSE,
               !.calls[u].pr.pc = "cleaned"]

\* requestPairingCode(): lines 413-437, up to its first wait; the sockets of
\* earlier calls keep their handlers, whose promise is another one
requestPairingCode(st, u) ==
    LET s0 == [st EXCEPT
                 !.socks = [k \in DOMAIN @ |->
                              IF @[k].owner = u /\ @[k].by = "pairing"
                              THEN [@[k] EXCEPT !.by = "paired"] ELSE @[k]],
                 !.calls[u].pr = NoCalls.pr]
        s1 == disconnectTimers(s0, u)
    IN  IF s1.sess[u].sock # 0
        THEN [endSock(s1, u) EXCEPT !.calls[u].pr.pc = "ending"]
        ELSE pairingClean(s1, u)

\* POST /pairing-code/:userId
pairingRoute(st, u) ==
    requestPairingCode([getUserSession(st, u) EXCEPT !.sess[u].phoneNumber = TRUE],
                       u)

\* requestPairingCode(): lines 471-547, useMultiFileAuthState resolved and the
\* socket and the two timers are set up (ok), or the setup threw
pairingSocket(st, u, ok) ==
    IF ok
    THEN [makeSocket(st, u, "pairing") EXCEPT
            !.calls[u].pr.pc = "up",
            !.calls[u].pr.t3 = "on",
            !.calls[u].pr.t30 = "on"]
    ELSE resolve([st EXCEPT !.calls[u].pr.pc = "up",
                            !.calls[u].pr.t3 = "done",
                            !.calls[u].pr.t30 = "done"], u, "error")

\* the 3 s timer with no test of the phone number's format
pairingTimer3Lenient(st, u, valid) ==
    LET k == st.sess[u].sock
    IN  IF k # 0 /\ st.socks[k].st \in {"connecting", "open"}
        THEN [st EXCEPT !.calls[u].pr.t3 = "asked"]
        ELSE resolve([st EXCEPT !.calls[u].pr.t3 = "done"], u, "error")

\* the 3 s timer of requestPairingCode(): lines 516-531; valid: the phone
\* number has one of the two accepted formats
pairingTimer3(st, u, valid) ==
    LET k == st.sess[u].sock
        rejected == [op |-> "pairingRejected", user |-> u, closed |-> FALSE]
    IN  IF valid /\ k # 0 /\ st.socks[k].st \in {"connecting", "open"}
        THEN [st EXCEPT !.calls[u].pr.t3 = "asked"]
        ELSE resolve([st EXCEPT !.calls[u].pr.t3 = "done",
                                !.hist.last = IF valid THEN @ ELSE rejected],
                     u, "error")

\* sock.requestPairingCode() settled: lines 531-539
pairingAnswered(st, u, outcome) ==
    LET s1 == [st EXCEPT !.calls[u].pr.t3 = "done"]
    IN  IF outcome = "code"
        THEN resolve([s1 EXCEPT !.sess[u].pairingCode = TRUE,
                                !.sess[u].connectionState =
                                    "pairing_code_generated"], u, "code")
        ELSE resolve(s1, u, "error")

\* the 30 s timer of requestPairingCode(): lines 543-547
pairingTimer30(st, u) ==
    LET s1 == [st EXCEPT !.calls[u].pr.t30 = "done"]
    IN  IF ~s1.sess[u].pairingCode THEN resolve(s1, u, "timeout") ELSE s1

\* update.isNewLogin on a socket of start(): lines 147-156, by the result of
\* this.sock.requestPairingCode (this.sock null: a TypeError, caught)
newLogin(st, u, outcome) ==
    IF ~st.sess[u].pairingCode /\ st.sess[u].phoneNumber
       /\ st.sess[u].sock # 0 /\ outcome = "code"
    THEN [st EXCEPT !.sess[u].pairingCode = TRUE,
                    !.sess[u].connectionState = "pairing_code_generated"]
    ELSE st

\* the auto-recovery test of one session, lines 980-984
recoverable(st, u) ==
    /\ st.registered[u]
    /\ ~st.sess[u].isConnected
    /\ st.sess[u].connectionState = "disconnected"
    /\ st.creds[u]
    /\ ~st.sess[u].reconnectTimeout

RECURSIVE startEach(_, _)
\* session.start(false) on each session of the sequence, in order
startEach(st, us) ==
    IF us = <<>> THEN st
    ELSE startEach(start(st, Head(us), FALSE), Tail(us))

Orders(S) ==
    {f \in [1..Cardinality(S) -> S] : \A i, j \in DOMAIN f : i # j => f[i] # f[j]}

----------------------------------------------------------------------------
\* transport events of socket k, delivered to the handler start() registered

\* update.qr
Qr(k) ==
    /\ socks[k].st = "connecting"
    /\ socks[k].by = "start"
    /\ Set([Cur EXCEPT !.sess[socks[k].owner].qrCodeData = TRUE,
                       !.sess[socks[k].owner].connectionState = "qr_generated",
                       !.hist.qrAge[socks[k].owner] = 0])

\* update.isNewLogin
NewLogin(k, outcome) ==
    /\ socks[k].st = "connecting"
    /\ socks[k].by = "start"
    /\ Set(newLogin(Cur, socks[k].owner, outcome))

\* update.connection === 'connecting'
Connecting(k) ==
    /\ socks[k].st = "connecting"
    /\ socks[k].by = "start"
    /\ Set([Cur EXCEPT !.sess[socks[k].owner].connectionState = "connecting"])

\* update.connection === 'open'
Open(k) ==
    /\ socks[k].st = "connecting"
    /\ socks[k].by = "start"
    /\ Set(onOpen([Cur EXCEPT !.socks[k].st = "open"], socks[k].owner))

\* update.connection === 'close' with lastDisconnect (code, msg)
Close(k, code, msg) ==
    /\ socks[k].st \in {"connecting", "open"}
    /\ socks[k].by = "start"
    /\ LET s1 == onClose(ended(Cur, k), socks[k].owner, code, msg)
       IN  /\ PendingTimers(s1, socks[k].owner) <= MaxTimers
           /\ Set(s1)

\* update.connection === 'open' on a socket of requestPairingCode()
PairingOpen(k) ==
    /\ socks[k].st = "connecting"
    /\ socks[k].by # "start"
    /\ Set(onPairingOpen([Cur EXCEPT !.socks[k].st = "open"], socks[k].owner))

\* update.connection === 'close' on a socket of requestPairingCode()
PairingClose(k, code) ==
    /\ socks[k].st \in {"connecting", "open"}
    /\ socks[k].by # "start"
    /\ Set(closeEvent(Cur, k, code, "other"))

\* 'creds.update': saveCreds writes creds.json
CredsUpdate(k) ==
    /\ socks[k].st \in {"connecting", "open"}
    /\ ~creds[socks[k].owner]
    /\ Set([Cur EXCEPT !.creds[socks[k].owner] = TRUE])

\* the heartbeat interval fires: the probe is sent
HeartbeatTick(u) ==
    /\ sess[u].heartbeatInterval
    /\ ~sess[u].probing
    /\ sess[u].isConnected /\ sess[u].sock # 0
    /\ Set([Cur EXCEPT !.sess[u].probing = TRUE])

\* the probe settles: answered, rejected ('Connection Closed') or timed out
HeartbeatResult(u, outcome) ==
    /\ sess[u].probing
    /\ outcome = "ok" => sess[u].sock # 0 /\ socks[sess[u].sock].st = "open"
    /\ LET s1 == heartbeatResult(Cur, u, outcome)
       IN  /\ PendingTimers(s1, u) <= MaxTimers
           /\ Set(s1)

\* POST /send/:userId
Send(u, outcome) ==
    /\ outcome = "ok" =>
           registered[u] /\ sess[u].sock # 0 /\ socks[sess[u].sock].st = "open"
    /\ LET s1 == sendRoute(Cur, u, outcome)
       IN  /\ PendingTimers(s1, u) <= MaxTimers
           /\ Set(s1)

\* POST /disconnect/:userId
Disconnect(u, thrown) ==
    /\ thrown =>
           registered[u] /\ sess[u].sock # 0 /\ socks[sess[u].sock].st = "closed"
    /\ Set(disconnectRoute(Cur, u, thrown))

\* POST /restore/:userId
Restore(u) ==
    /\ registered[u] \/ Quiescent(Cur, u)
    /\ creds[u]
    /\ SpareExecs(Cur) > 0
    /\ Set(start(getUserSession(Cur, u), u, FALSE))

\* GET /status/:userId
Status(u, ok) ==
    /\ registered[u] \/ Quiescent(Cur, u)
    /\ Set(statusRoute(Cur, u, ok))

\* POST /force-qr/:userId, and GET /qr/:userId when it has no QR to return
ForceQR(u, route) ==
    /\ registered[u] \/ Quiescent(Cur, u)
    /\ calls[u].fq.pc = "idle"
    /\ SpareExecs(Cur) > 0
    /\ LET s1 == getUserSession(Cur, u)
           s2 == forceQR(s1, u)
       IN  /\ route = "qr" =>
                  /\ ~s1.sess[u].isConnected
                  /\ ~(s1.sess[u].qrCodeData
                         /\ s1.sess[u].connectionState = "qr_generated")
           /\ PendingTimers(s2, u) <= MaxTimers
           /\ Set(s2)

\* checkQR runs
PollQR(u) ==
    /\ calls[u].fq.pc = "polling"
    /\ Set(checkQR(Cur, u))

\* POST /reconnect/:userId
Reconnect(u, thrown) ==
    /\ registered[u] \/ Quiescent(Cur, u)
    /\ SpareExecs(Cur) > 0
    /\ LET s1 == getUserSession(Cur, u)
           k == s1.sess[u].sock
       IN  /\ thrown => k # 0 /\ s1.socks[k].st = "closed"
           /\ Set(reconnect(s1, u, thrown))

\* POST /pairing-code/:userId
RequestPairingCode(u) ==
    /\ registered[u] \/ Quiescent(Cur, u)
    /\ CallOver(calls[u].pr)
    /\ LET s1 == pairingRoute(Cur, u)
       IN  /\ PendingTimers(s1, u) <= MaxTimers
           /\ Set(s1)

\* requestPairingCode(): the 1 s wait after sock.end() is over
PairingEnded(u) ==
    /\ calls[u].pr.pc = "ending"
    /\ Set(pairingClean(Cur, u))

\* requestPairingCode(): the 2 s wait and useMultiFileAuthState are over
PairingSocket(u, ok) ==
    /\ calls[u].pr.pc = "cleaned"
    /\ ok => FreeSocks(Cur) # {}
    /\ Set(pairingSocket(Cur, u, ok))

\* the 3 s timer of requestPairingCode() fires
PairingTimer3(u, valid) ==
    /\ calls[u].pr.t3 = "on"
    /\ Set(pairingTimer3(Cur, u, valid))

\* the transport settles sock.requestPairingCode()
PairingAnswered(u, outcome) ==
    /\ calls[u].pr.t3 = "asked"
    /\ Set(pairingAnswered(Cur, u, outcome))

\* the 30 s timer of requestPairingCode() fires
PairingTimer30(u) ==
    /\ calls[u].pr.t30 = "on"
    /\ calls[u].pr.t3 # "on"
    /\ Set(pairingTimer30(Cur, u))

\* time passes: every cached QR is one tick older
Tick ==
    /\ \E u \in Users : sess[u].qrCodeData /\ hist.qrAge[u] < QrTtl
    /\ Set([Cur EXCEPT !.hist.qrAge =
                [u \in Users |-> IF sess[u].qrCodeData /\ @[u] < QrTtl
                                 THEN @[u] + 1 ELSE @[u]]])

\* the auto-recovery interval, lines 976-990
Sweep ==
    LET S == {u \in Users : recoverable(Cur, u)}
    IN  /\ S # {}
        /\ Cardinality(S) <= SpareExecs(Cur)
        /\ \E o \in Orders(S) : Set(startEach(Cur, o))

\* useMultiFileAuthState resolved (ok) or it or makeWASocket threw (~ok)
StartFinish(e, ok) ==
    /\ holding[e] > 0
    /\ ok => FreeSocks(Cur) # {}
    /\ Set(startFinish(Cur, e, ok))

Next ==
    \/ \E u \in Users : GetUserSession(u)
    \/ \E u \in Users, w \in {"tracked", "looseF", "looseT"} : TimerFire(u, w)
    \/ \E e \in Execs, ok \in BOOLEAN : StartFinish(e, ok)
    \/ \E k \in SockIds : Qr(k)
    \/ \E k \in SockIds : Connecting(k)
    \/ \E k \in SockIds : Open(k)
    \/ \E k \in SockIds, c \in StatusCodes, m \in Messages : Close(k, c, m)
    \/ \E k \in SockIds : CredsUpdate(k)
    \/ \E u \in Users : HeartbeatTick(u)
    \/ \E u \in Users, o \in {"ok", "closed", "timeout"} : HeartbeatResult(u, o)
    \/ \E u \in Users, o \in {"ok", "closed", "other"} : Send(u, o)
    \/ \E u \in Users, t \in BOOLEAN : Disconnect(u, t)
    \/ \E u \in Users : Restore(u)
    \/ Sweep

Spec == Init /\ [][Next]_vars

\* The pairing-code path: requestPairingCode() and its sockets, next to the
\* starts and the transport events of the sockets of start().
PairNext ==
    \/ \E u \in Users : GetUserSession(u)
    \/ \E u \in Users, w \in {"tracked", "looseF", "looseT"} : TimerFire(u, w)
    \/ \E e \in Execs, ok \in BOOLEAN : StartFinish(e, ok)
    \/ \E k \in SockIds : Qr(k)
    \/ \E k \in SockIds, o \in {"code", "error"} : NewLogin(k, o)
    \/ \E k \in SockIds : Open(k)
    \/ \E k \in SockIds, c \in StatusCodes, m \in Messages : Close(k, c, m)
    \/ \E k \in SockIds : CredsUpdate(k)
    \/ \E k \in SockIds : PairingOpen(k)
    \/ \E k \in SockIds, c \in StatusCodes : PairingClose(k, c)
    \/ \E u \in Users : HeartbeatTick(u)
    \/ \E u \in Users, o \in {"ok", "closed", "timeout"} : HeartbeatResult(u, o)
    \/ \E u \in Users, ok \in BOOLEAN : Status(u, ok)
    \/ \E u \in Users : RequestPairingCode(u)
    \/ \E u \in Users : PairingEnded(u)
    \/ \E u \in Users, ok \in BOOLEAN : PairingSocket(u, ok)
    \/ \E u \in Users, v \in BOOLEAN : PairingTimer3(u, v)
    \/ \E u \in Users, o \in {"code", "error"} : PairingAnswered(u, o)
    \/ \E u \in Users : PairingTimer30(u)

PairSpec == PairInit /\ [][PairNext]_vars

\* the waits, the file I/O and the two timers of requestPairingCode() run;
\* nothing obliges the transport to settle sock.requestPairingCode()
PairFair ==
    \A u \in 1..PairUsers :
        /\ WF_vars(PairingEnded(u))
        /\ WF_vars(\E ok \in BOOLEAN : PairingSocket(u, ok))
        /\ WF_vars(\E v \in BOOLEAN : PairingTimer3(u, v))
        /\ WF_vars(PairingTimer30(u))
PairLive == PairSpec /\ PairFair

\* The QR path: forceQR() and its polling, next to the starts and the
\* transport events.
PollNext ==
    \/ \E u \in Users : GetUserSession(u)
    \/ \E u \in Users, w \in {"tracked", "looseF", "looseT"} : TimerFire(u, w)
    \/ \E e \in Execs, ok \in BOOLEAN : StartFinish(e, ok)
    \/ \E k \in SockIds : Qr(k)
    \/ \E k \in SockIds : Open(k)
    \/ \E k \in SockIds, c \in StatusCodes, m \in Messages : Close(k, c, m)
    \/ \E u \in Users, r \in {"force-qr", "qr"} : ForceQR(u, r)
    \/ \E u \in Users : PollQR(u)
    \/ \E u \in Users, t \in BOOLEAN : Reconnect(u, t)

PollSpec == PollInit /\ [][PollNext]_vars

\* every start() that holds a slot goes on to its finally block, and the
\* checkQR timer fires
PollFair ==
    /\ \A e \in [user : 1..PollUsers, force : BOOLEAN, cont : Conts] :
           WF_vars(\E ok \in BOOLEAN : StartFinish(e, ok))
    /\ \A u \in 1..PollUsers : WF_vars(PollQR(u))
PollLive == PollSpec /\ PollFair

\* The cached QR over time: the starts, the transport events and the reads.
ClockNext ==
    \/ \E u \in Users : GetUserSession(u)
    \/ \E u \in Users, w \in {"tracked", "looseF", "looseT"} : TimerFire(u, w)
    \/ \E e \in Execs, ok \in BOOLEAN : StartFinish(e, ok)
    \/ \E k \in SockIds : Qr(k)
    \/ \E k \in SockIds : Open(k)
    \/ \E k \in SockIds, c \in StatusCodes, m \in Messages : Close(k, c, m)
    \/ \E u \in Users, ok \in BOOLEAN : Status(u, ok)
    \/ Tick

ClockSpec == ClockInit /\ [][ClockNext]_vars

----------------------------------------------------------------------------
\* whatsapp_baileys_multi.js: ensureInstance() and the routes that call it.
\* The operators are functions on the value of `multi`.

Ids == 1..MultiIds
CallIds == 1..MultiCalls

\* the sockets made for id so far
Made(m, id) == Cardinality({n \in 1..MultiSocks : m.sock[id][n] # "none"})

\* the sockets of id that are connecting or open
LiveOf(m, id) == {n \in 1..MultiSocks : m.sock[id][n] \in {"connecting", "open"}}

\* the promise of call r settles: the `.finally` of ensureInstance() deletes
\* the lock if it holds this promise's id, and every call that was handed
\* the promise gets its outcome
settle(m, r, pc, v) ==
    [m EXCEPT !.ensureLocks[m.call[r].id] = 0,
              !.call = [c \in CallIds |->
                          IF c = r \/ (@[c].pc = "joined" /\ @[c].run = r)
                          THEN [@[c] EXCEPT !.pc = pc, !.val = v]
                          ELSE @[c]]]

\* _reallyEnsureInstance(): from its call to its first await
reallyEnsureInstance(m, c, id, force) ==
    LET m1 == [m EXCEPT !.call[c] = [id |-> id, pc |-> "auth", run |-> c,
                                     val |-> 0],
                        !.ensureLocks[id] = c]
    IN  IF force
        THEN [m1 EXCEPT !.call[c].pc = "destroy", !.torn[id] = TRUE]
        ELSE IF m.instances[id] # 0
        THEN settle(m1, c, "returned", m.instances[id])
        ELSE m1

\* ensureInstance() without the test of ensureLocks
ensureInstanceNoLock(m, c, id, force) ==
    reallyEnsureInstance(m, c, id, force)

\* ensureInstance(): lines 170-179
ensureInstance(m, c, id, force) ==
    IF m.ensureLocks[id] # 0
    THEN [m EXCEPT !.call[c] = [id |-> id, pc |-> "joined",
                                run |-> m.ensureLocks[id], val |-> 0]]
    ELSE reallyEnsureInstance(m, c, id, force)

\* 'connection.update' with connection === 'close' on socket n of id: lines
\* 145-164 up to the await of the branch taken
multiClose(m, id, n, logout) ==
    [m EXCEPT !.sock[id][n] = "closed",
              !.closing[id] = IF logout THEN [@ EXCEPT !.logout = @ + 1]
                                        ELSE [@ EXCEPT !.retry = @ + 1]]

\* _reallyEnsureInstance(): lines 89-94, destroyAuth is done and
\* prev.sock.logout() is called, which ends a live socket with loggedOut
ensureDestroyed(m, c) ==
    LET id == m.call[c].id
        prev == m.instances[id]
        m1 == [m EXCEPT !.auth[id] = FALSE]
    IN  IF prev = 0 THEN [m1 EXCEPT !.call[c].pc = "auth"]
        ELSE IF prev \in LiveOf(m1, id)
        THEN [multiClose(m1, id, prev, TRUE) EXCEPT !.call[c].pc = "logout"]
        ELSE [m1 EXCEPT !.call[c].pc = "logout"]

\* _reallyEnsureInstance(): lines 95-101, logout() settled
ensureLoggedOut(m, c) ==
    [m EXCEPT !.instances[m.call[c].id] = 0, !.call[c].pc = "auth"]

\* _reallyEnsureInstance(): useMultiFileAuthState settled
ensureAuth(m, c, ok) ==
    IF ok THEN [m EXCEPT !.call[c].pc = "version"]
    ELSE settle(m, c, "thrown", 0)

\* _reallyEnsureInstance(): lines 102-167, fetchLatestBaileysVersion settled;
\* the socket is made and its data object registered
ensureVersion(m, c, ok) ==
    LET id == m.call[c].id
        n == Made(m, id) + 1
    IN  IF ok
        THEN settle([m EXCEPT !.sock[id][n] = "connecting",
                              !.instances[id] = n], c, "returned", n)
        ELSE settle(m, c, "thrown", 0)

\* the close handler after `await destroyAuth(id)`: lines 158-159
logoutHandled(m, id) ==
    [m EXCEPT !.closing[id].logout = @ - 1,
              !.auth[id] = FALSE,
              !.instances[id] = 0,
              !.torn[id] = TRUE]

\* the close handler after `await wait(1000)`: lines 161-162
retryHandled(m, id, c) ==
    ensureInstance([m EXCEPT !.closing[id].retry = @ - 1], c, id, FALSE)

\* a step of whatsapp_baileys_multi.js: part_002's state is another process
SetMulti(m) ==
    /\ multi' = m
    /\ hist' = [hist EXCEPT !.last = NoLabel]
    /\ UNCHANGED <<registered, sess, timers, creds, socks, current, queue,
                   holding, calls>>

\* a route calls ensureInstance(id, {forceNew}): /status, /qr (when the id has
\* no instance), /reconnect, /restore, /send, /pairing-code (forceNew false)
\* and /force-qr (forceNew true)
EnsureInstance(c, id, force, route) ==
    /\ multi.call[c].pc = "free"
    /\ route \in {"status", "qr"} => multi.instances[id] = 0
    /\ force <=> route = "force-qr"
    /\ SetMulti(ensureInstance(multi, c, id, force))

EnsureDestroyed(c) ==
    /\ multi.call[c].pc = "destroy"
    /\ SetMulti(ensureDestroyed(multi, c))

EnsureLoggedOut(c) ==
    /\ multi.call[c].pc = "logout"
    /\ SetMulti(ensureLoggedOut(multi, c))

EnsureAuth(c, ok) ==
    /\ multi.call[c].pc = "auth"
    /\ SetMulti(ensureAuth(multi, c, ok))

EnsureVersion(c, ok) ==
    /\ multi.call[c].pc = "version"
    /\ ok => Made(multi, multi.call[c].id) < MultiSocks
    /\ SetMulti(ensureVersion(multi, c, ok))

\* 'connection.update' with connection === 'open'
MultiOpen(id, n) ==
    /\ multi.sock[id][n] = "connecting"
    /\ SetMulti([multi EXCEPT !.sock[id][n] = "open"])

\* 'creds.update': saveCreds writes the id's auth folder
MultiCreds(id, n) ==
    /\ n \in LiveOf(multi, id)
    /\ ~multi.auth[id]
    /\ SetMulti([multi EXCEPT !.auth[id] = TRUE])

\* 'connection.update' with connection === 'close'
MultiClose(id, n, logout) ==
    /\ n \in LiveOf(multi, id)
    /\ SetMulti(multiClose(multi, id, n, logout))

LogoutHandled(id) ==
    /\ multi.closing[id].logout > 0
    /\ SetMulti(logoutHandled(multi, id))

RetryHandled(id, c) ==
    /\ multi.closing[id].retry > 0
    /\ multi.call[c].pc = "free"
    /\ SetMulti(retryHandled(multi, id, c))

\* part_001, the server before ensureLocks: its ensureInstance() is the body
\* of _reallyEnsureInstance() and no call is ever handed another call's
\* promise, so the lock of the id stays free
ensureInstanceOld(m, c, id, force) ==
    [reallyEnsureInstance(m, c, id, force) EXCEPT !.ensureLocks[id] = 0]

\* part_001's close handler up to its await: only the branch that is not a
\* logout awaits (wait(1000)); after a logout it does nothing more
closeOld(m, id, n, logout) ==
    IF logout THEN [m EXCEPT !.sock[id][n] = "closed"]
    ELSE multiClose(m, id, n, FALSE)

\* part_001's ensureInstance(): lines 56-63, destroyAuth is done and
\* logout() of the registered socket is called
ensureDestroyedOld(m, c) ==
    LET id == m.call[c].id
        prev == m.instances[id]
        m1 == [m EXCEPT !.auth[id] = FALSE]
    IN  IF prev = 0 THEN [m1 EXCEPT !.call[c].pc = "auth"]
        ELSE IF prev \in LiveOf(m1, id)
        THEN [closeOld(m1, id, prev, TRUE) EXCEPT !.call[c].pc = "logout"]
        ELSE [m1 EXCEPT !.call[c].pc = "logout"]

\* part_001's close handler after `await wait(1000)`: lines 124-127
retryHandledOld(m, id, c) ==
    ensureInstanceOld([m EXCEPT !.closing[id].retry = @ - 1], c, id, FALSE)

\* part_001's routes that call ensureInstance(): /reconnect, /pairing-code,
\* /send (forceNew false) and /force-qr (forceNew true)
EnsureInstanceOld(c, id, force, route) ==
    /\ multi.call[c].pc = "free"
    /\ force <=> route = "force-qr"
    /\ SetMulti(ensureInstanceOld(multi, c, id, force))

EnsureDestroyedOld(c) ==
    /\ multi.call[c].pc = "destroy"
    /\ SetMulti(ensureDestroyedOld(multi, c))

CloseOld(id, n, logout) ==
    /\ n \in LiveOf(multi, id)
    /\ SetMulti(closeOld(multi, id, n, logout))

RetryHandledOld(id, c) ==
    /\ multi.closing[id].retry > 0
    /\ multi.call[c].pc = "free"
    /\ SetMulti(retryHandledOld(multi, id, c))

TenantInit == InitFor(1..TenantUsers, 1..TenantSocks, TenantExec)

\* Two tenants side by side. Tenant 1 is the one that is probed, sent
\* through and disconnected; the other tenant has its own starts and
\* transport events and is the bystander of tenant 1's failures.
TenantNext ==
    \/ \E u \in Users : GetUserSession(u)
    \/ \E u \in Users, w \in {"tracked", "looseF", "looseT"} : TimerFire(u, w)
    \/ \E e \in Execs, ok \in BOOLEAN : StartFinish(e, ok)
    \/ \E k \in SockIds : Open(k)
    \/ \E k \in SockIds, c \in StatusCodes, m \in Messages : Close(k, c, m)
    \/ HeartbeatTick(1)
    \/ \E o \in {"ok", "closed", "timeout"} : HeartbeatResult(1, o)
    \/ \E o \in {"ok", "closed", "other"} : Send(1, o)
    \/ \E t \in BOOLEAN : Disconnect(1, t)

TenantSpec == TenantInit /\ [][TenantNext]_vars

MultiInit == InitFor(1..MultiUsers, 1..MultiSocks, MultiExec)

\* The ensureInstance() server, and getUserSession() of part_002 with the
\* start it schedules.
MultiNext ==
    \/ \E c \in CallIds, id \in Ids, f \in BOOLEAN,
          r \in {"status", "qr", "reconnect", "restore", "send", "force-qr"} :
           EnsureInstance(c, id, f, r)
    \/ \E c \in CallIds : EnsureDestroyed(c)
    \/ \E c \in CallIds : EnsureLoggedOut(c)
    \/ \E c \in CallIds, ok \in BOOLEAN : EnsureAuth(c, ok)
    \/ \E c \in CallIds, ok \in BOOLEAN : EnsureVersion(c, ok)
    \/ \E id \in Ids, n \in 1..MultiSocks : MultiOpen(id, n)
    \/ \E id \in Ids, n \in 1..MultiSocks : MultiCreds(id, n)
    \/ \E id \in Ids, n \in 1..MultiSocks, l \in BOOLEAN : MultiClose(id, n, l)
    \/ \E id \in Ids : LogoutHandled(id)
    \/ \E id \in Ids, c \in CallIds : RetryHandled(id, c)
    \/ \E u \in Users : GetUserSession(u)
    \/ \E u \in Users, w \in {"tracked", "looseF", "looseT"} : TimerFire(u, w)
    \/ \E e \in Execs, ok \in BOOLEAN : StartFinish(e, ok)

MultiSpec == MultiInit /\ [][MultiNext]_vars

\* part_001's ensureInstance() server: the awaits of ensureInstance() after
\* its first are those of _reallyEnsureInstance().
OldNext ==
    \/ \E c \in CallIds, id \in Ids, f \in BOOLEAN,
          r \in {"reconnect", "pairing-code", "send", "force-qr"} :
           EnsureInstanceOld(c, id, f, r)
    \/ \E c \in CallIds : EnsureDestroyedOld(c)
    \/ \E c \in CallIds : EnsureLoggedOut(c)
    \/ \E c \in CallIds, ok \in BOOLEAN : EnsureAuth(c, ok)
    \/ \E c \in CallIds, ok \in BOOLEAN : EnsureVersion(c, ok)
    \/ \E id \in Ids, n \in 1..MultiSocks : MultiOpen(id, n)
    \/ \E id \in Ids, n \in 1..MultiSocks : MultiCreds(id, n)
    \/ \E id \in Ids, n \in 1..MultiSocks, l \in BOOLEAN : CloseOld(id, n, l)
    \/ \E id \in Ids, c \in CallIds : RetryHandledOld(id, c)

OldSpec == MultiInit /\ [][OldNext]_vars

\* The operations that call start(), with no transport event: every socket
\* stays in its handshake.
GateNext ==
    \/ \E u \in Users : GetUserSession(u)
    \/ \E u \in Users, w \in {"tracked", "looseF", "looseT"} : TimerFire(u, w)
    \/ \E e \in Execs, ok \in BOOLEAN : StartFinish(e, ok)
    \/ \E u \in Users : Restore(u)
    \/ Sweep

GateSpec == GateInit /\ [][GateNext]_vars

QueueSpec == QueueInit /\ [][GateNext]_vars

\* every start() that holds a slot goes on to its finally block
QueueFair == \A e \in [user : 1..QueueUsers, force : BOOLEAN, cont : Conts] :
                 WF_vars(\E ok \in BOOLEAN : StartFinish(e, ok))
QueueLive == QueueSpec /\ QueueFair

----------------------------------------------------------------------------
\* The properties of the specification, each checked against the model.

\* C1: at any time a session has at most one live transport socket (start()
\* would end the existing socket before it creates the new one).
OneLiveSocket ==
    \A u \in Users : Cardinality(LiveSocks(Cur, u)) <= 1

\* C2: a session never has more than one start() in progress (waiting for the
\* gate or between acquire() and release()).
OneStartInProgress ==
    \A u \in Users :
        Cardinality({i \in DOMAIN queue : queue[i].user = u})
            + Sum(holding, {e \in Execs : e.user = u}) <= 1

\* C3: with gate capacity N, at most N sessions are Connecting (transport
\* created, handshake neither open nor closed) at any time.
AtMostNConnecting ==
    Cardinality({u \in Users :
                    \E k \in SockIds : socks[k].owner = u
                                       /\ socks[k].st = "connecting"})
        <= maxConcurrent

\* C4: the gate admits waiters first in, first out: a waiter leaves the queue
\* only when every waiter that was queued before it has left.
FifoAdmission ==
    [][\A i \in DOMAIN queue :
           queue[i].id \notin QueueIds(queue') => queue[i].ahead = {}]_vars

\* a waiter at the head of the queue that arrived behind another one, which
\* has been admitted since
FifoWitness ==
    /\ queue # <<>>
    /\ queue[1].id > 1
    /\ queue[1].ahead = {}

\* C5: every start() holds a gate slot from acquire() until it finishes and
\* gives it back exactly once, on success and on a throw alike (the slots
\* taken are exactly those of the starts in progress past acquire()), and a
\* socket is created only by a start() that holds a slot.
SlotPerStart ==
    /\ [](current = Sum(holding, DOMAIN holding))
    /\ [][\A k \in SockIds :
              (socks[k].st = "none" /\ socks'[k].st # "none")
                  => \E e \in Execs : e.user = socks'[k].owner /\ holding[e] > 0
                                      /\ holding'[e] <= holding[e]]_vars

\* a start() threw (state 'error') and no slot is taken any more
ThrowReleased ==
    /\ \E u \in Users : sess[u].connectionState = "error"
    /\ current = 0
    /\ queue = <<>>

\* C6: every acquire() that waits is resolved in the end, provided the holders
\* release: no waiter starves, whatever arrives later.
NoStarvation ==
    \A i \in 1..QueueExec : (i \in QueueIds(queue)) ~> (i \notin QueueIds(queue))

\* a waiter that saw the one ahead of it admitted and a later one arrive
\* behind it
OvertakenWitness ==
    /\ Len(queue) = 2
    /\ queue[1].ahead = {}
    /\ queue[1].id = 2
    /\ queue[2].ahead = {2}

\* C7: a close with reason loggedOut removes the session's credentials, makes
\* the close handler schedule no reconnect timer, and leaves no cached QR and
\* no pairing code.
SignOutWipes ==
    [][\A k \in SockIds, m \in Messages :
           Close(k, loggedOut, m) =>
               LET u == socks[k].owner
               IN  /\ ~creds'[u]
                   /\ timers'[u] = timers[u]
                   /\ ~sess'[u].qrCodeData
                   /\ ~sess'[u].pairingCode]_vars

\* C8: after a close classified as sign-out, bad session or device mismatch,
\* no timer and no sweep calls start() on the session (hist.terminal[u] holds
\* from such a close on).
NoAutoStartAfterTerminal ==
    [][\A u \in Users :
           hist.terminal[u] =>
               /\ ~(\E w \in {"tracked", "looseF", "looseT"} : TimerFire(u, w))
               /\ ~(Sweep /\ recoverable(Cur, u))]_vars

\* C9: a failed probe below the third consecutive failure leaves the session
\* as it was (Open stays Open, the interval stays armed); the third one marks
\* it disconnected and stops the interval; a successful probe resets
\* heartbeatFailures to 0.
HeartbeatThreshold ==
    [][\A u \in Users, o \in {"ok", "closed", "timeout"} :
           HeartbeatResult(u, o) =>
               LET n == sess[u].heartbeatFailures + 1
               IN  /\ o = "ok" =>
                          /\ sess'[u].heartbeatFailures = 0
                          /\ sess'[u].isConnected = sess[u].isConnected
                          /\ sess'[u].heartbeatInterval = sess[u].heartbeatInterval
                   /\ (o # "ok" /\ n < 3) =>
                          /\ sess'[u].heartbeatFailures = n
                          /\ sess'[u].isConnected = sess[u].isConnected
                          /\ sess'[u].connectionState = sess[u].connectionState
                          /\ sess'[u].heartbeatInterval = sess[u].heartbeatInterval
                   /\ (o # "ok" /\ n >= 3) =>
                          /\ ~sess'[u].isConnected
                          /\ sess'[u].connectionState = "disconnected"
                          /\ ~sess'[u].heartbeatInterval]_vars

\* an Open session with two consecutive failed probes and the interval armed
TwoFailuresStillOpen ==
    \E u \in Users :
        /\ sess[u].heartbeatFailures = 2
        /\ sess[u].isConnected
        /\ sess[u].connectionState = "connected"
        /\ sess[u].heartbeatInterval

QrExpires ==
    \A u \in Users : statusView(Cur, u).qrCode => hist.qrAge[u] < QrTtl

\* C12: a session's qrCodeData and pairingCode are never both non-null.
ArtifactsExclusive ==
    \A u \in Users : ~(sess[u].qrCodeData /\ sess[u].pairingCode)

\* C13: a session marked connected (isConnected, state 'connected') has a
\* socket and neither a cached QR nor a cached pairing code.
ConnectedClean ==
    \A u \in Users :
        (sess[u].isConnected /\ sess[u].connectionState = "connected") =>
            /\ sess[u].sock # 0
            /\ ~sess[u].qrCodeData
            /\ ~sess[u].pairingCode

\* C14: reconnectTimeout is non-null only while the session is disconnected
\* and the retry it refers to has not fired yet, and it is null when a start()
\* of the session creates a socket.
TimeoutOnlyWhilePending ==
    /\ [](\A u \in Users :
             sess[u].reconnectTimeout =>
                 /\ ~sess[u].isConnected
                 /\ sess[u].connectionState = "disconnected"
                 /\ timers[u].tracked # "none")
    /\ [][\A e \in Execs :
              StartFinish(e, TRUE) =>
                  ~sess'[e.user].reconnectTimeout]_vars

\* C15: a registered session that is disconnected, has creds.json and no
\* pending reconnect timer (here also: no start() in progress and no live
\* socket, its last attempt is over) is one the sweep calls start(false) on.
SweepRevives ==
    \A u \in Users :
        ( /\ registered[u]
          /\ ~sess[u].isConnected
          /\ sess[u].connectionState = "disconnected"
          /\ creds[u]
          /\ PendingTimers(Cur, u) = 0
          /\ LiveSocks(Cur, u) = {}
          /\ \A i \in DOMAIN queue : queue[i].user # u
          /\ \A e \in Execs : e.user = u => holding[e] = 0 )
        => recoverable(Cur, u)

\* C16: the sweep only calls start(false), removes no credentials, and calls
\* start() on no session that has a start() in progress, a socket still
\* connecting or a reconnect timer pending (tracked or not).
SweepNoOverride ==
    [][\A u \in Users :
           (Sweep /\ recoverable(Cur, u)) =>
               /\ creds'[u] = creds[u]
               /\ \A i \in DOMAIN queue : queue[i].user # u
               /\ \A e \in Execs : e.user = u => holding[e] = 0
               /\ \A k \in LiveSocks(Cur, u) : socks[k].st # "connecting"
               /\ PendingTimers(Cur, u) = 0]_vars

\* C17: a forceQR() call (POST /force-qr, GET /qr) always completes: once
\* its start(true) returned it runs checkQR at most maxAttempts times and
\* settles with the QR, a timeout or an error.
ForceQRCompletes ==
    /\ [](\A u \in Users : calls[u].fq.attempts < maxAttempts)
    /\ \A u \in 1..PollUsers :
           (calls[u].fq.pc # "idle") ~> (calls[u].fq.pc = "idle")

\* checkQR ran maxAttempts - 1 times without a QR: the next run gives up
LastPoll ==
    \E u \in Users :
        /\ calls[u].fq.pc = "polling"
        /\ calls[u].fq.attempts = maxAttempts - 1
        /\ ~sess[u].qrCodeData

\* C18: every requestPairingCode() call is settled in the end, with the
\* pairing code or with an error or timeout result, also when the transport
\* never answers the pairing request.
PairingResolves ==
    \A u \in 1..PairUsers :
        (calls[u].pr.pc # "idle") ~> (calls[u].pr.result # "none")

\* C19: at the step where requestPairingCode() creates its transport, the
\* socket the session held is ended, the heartbeat interval and the reconnect
\* timer are cancelled, no QR and no pairing code is cached and the tenant's
\* credentials are absent.
PairingStartsClean ==
    [][\A u \in Users :
          PairingSocket(u, TRUE) =>
              /\ sess[u].sock = 0 \/ socks[sess[u].sock].st = "closed"
              /\ ~sess[u].heartbeatInterval
              /\ timers[u].tracked = "none"
              /\ ~sess[u].qrCodeData
              /\ ~sess[u].pairingCode
              /\ ~creds[u]]_vars

SendFailureEffects ==
    [][\A u \in Users :
          /\ (Send(u, "closed") /\ hist'.last.op \in {"send", "sendAnyway"}) =>
                 /\ ~sess'[u].isConnected
                 /\ sess'[u].connectionState = "disconnected"
                 /\ ~sess'[u].heartbeatInterval
                 /\ timers'[u] = [timers[u] EXCEPT !.looseF = @ + 1]
          /\ (Send(u, "other") /\ hist'.last.op \in {"send", "sendAnyway"}) =>
                 /\ sess' = sess /\ timers' = timers /\ socks' = socks
                 /\ creds' = creds /\ registered' = registered
                 /\ queue' = queue /\ holding' = holding]_vars

SendClosedOnConnected ==
    /\ hist.last.op = "send"
    /\ hist.last.closed
    /\ ~sess[hist.last.user].isConnected
    /\ timers[hist.last.user].looseF > 0

\* C22: a disconnect of a tenant whose connection is open leaves the tenant
\* out of the registry and its credentials removed.
DisconnectWipes ==
    [][\A u \in Users :
          (/\ Disconnect(u, FALSE)
           /\ registered[u]
           /\ sess[u].isConnected
           /\ sess[u].sock # 0
           /\ socks[sess[u].sock].st = "open") =>
              ~registered'[u] /\ ~creds'[u]]_vars

\* C23: a disconnect of a tenant id that is not in the registry changes
\* neither the registry nor any session, socket, timer, credential or gate
\* entry, the first time and every time after.
DisconnectAbsentNoop ==
    [][\A u \in Users :
          ((\E t \in BOOLEAN : Disconnect(u, t)) /\ ~registered[u]) =>
              /\ registered' = registered /\ sess' = sess /\ socks' = socks
              /\ timers' = timers /\ creds' = creds /\ calls' = calls
              /\ queue' = queue /\ holding' = holding /\ current' = current]_vars

DisconnectAbsentOrphan ==
    /\ hist.last.op = "disconnectAbsent"
    /\ ~registered[hist.last.user]
    /\ sess[hist.last.user].sock # 0

\* C24: for an id that had no instance and was not taken down since, the
\* ensureInstance() calls, however they overlap, make one socket, and every
\* call that returned got the registered instance; getUserSession() makes one
\* session with one start, so one socket at most.
OneCreation ==
    /\ \A id \in Ids :
           ~multi.torn[id] =>
               /\ Made(multi, id) <= 1
               /\ \A c \in CallIds :
                      (multi.call[c].id = id /\ multi.call[c].pc = "returned") =>
                          multi.call[c].val = multi.instances[id]
    /\ \A u \in Users :
           PendingTimers(Cur, u) + Sum(holding, {e \in Execs : e.user = u})
               + Cardinality({i \in DOMAIN queue : queue[i].user = u})
               + Cardinality({k \in SockIds : socks[k].owner = u}) <= 1

JoinedCallsReturned ==
    \E id \in Ids :
        /\ ~multi.torn[id]
        /\ \A c \in CallIds : multi.call[c].id = id /\ multi.call[c].pc = "returned"
        /\ \E c \in CallIds : multi.call[c].run # c
        /\ \E u \in Users : registered[u] /\ sess[u].sock # 0

\* C25: when the /reconnect route's ensureInstance() call has returned, the
\* id's stored credentials are wiped and a new socket has been made for it.
ReconnectStartsAnew ==
    [][\A c \in CallIds, id \in Ids :
          (/\ EnsureInstance(c, id, FALSE, "reconnect")
           /\ multi'.call[c].pc = "returned") =>
              /\ ~multi'.auth[id]
              /\ Made(multi', id) > Made(multi, id)]_vars

RetryableCloseReconnects ==
    [][\A k \in SockIds, c \in StatusCodes :
          (/\ shouldReconnect(c)
           /\ \/ PairingClose(k, c)
              \/ \E m \in Messages : Close(k, c, m)) =>
              LET u == socks[k].owner
              IN  /\ ~sess'[u].isConnected
                  /\ sess'[u].connectionState = "disconnected"
                  /\ timers'[u] # timers[u]]_vars

\* C28: a close with status 515 or a 'stream errored' message schedules
\* start(false) and changes neither the stored credentials nor the cached QR.
StreamErrorPreserves ==
    [][\A k \in SockIds, c \in StatusCodes, m \in Messages :
          (Close(k, c, m) /\ (c = restartRequired \/ m = "stream errored")) =>
              LET u == socks[k].owner
              IN  /\ timers'[u].tracked = "false"
                  /\ creds' = creds
                  /\ sess'[u].qrCodeData = sess[u].qrCodeData]_vars

\* C29: every close that schedules an automatic reconnect adds one to
\* reconnectAttempts, and an open sets it to 0.
AttemptsCounted ==
    [][\A k \in SockIds :
          /\ \A c \in StatusCodes, m \in Messages :
                 (Close(k, c, m) /\ timers'[socks[k].owner] # timers[socks[k].owner]) =>
                     sess'[socks[k].owner].reconnectAttempts
                         = sess[socks[k].owner].reconnectAttempts + 1
          /\ Open(k) => sess'[socks[k].owner].reconnectAttempts = 0]_vars

\* C30: right after an open, on a socket of start() or of
\* requestPairingCode(), heartbeatFailures is 0.
OpenResetsFailures ==
    [][\A k \in SockIds :
          (Open(k) \/ PairingOpen(k)) =>
              sess'[socks[k].owner].heartbeatFailures = 0]_vars

\* C31: a reconnect scheduled by the close handler, the heartbeat or
\* sendMessage is the timer reconnectTimeout refers to, and the one it
\* replaces is cancelled: such a step never adds to the pending timers that
\* the handle does not refer to.
SingleReconnectTimer ==
    [][\A u \in Users :
          (\/ \E o \in {"ok", "closed", "other"} : Send(u, o)
           \/ \E o \in {"ok", "closed", "timeout"} : HeartbeatResult(u, o)
           \/ \E k \in SockIds, c \in StatusCodes, m \in Messages :
                  socks[k].owner = u /\ Close(k, c, m)) =>
              /\ timers'[u].looseF <= timers[u].looseF
              /\ timers'[u].looseT <= timers[u].looseT]_vars

\* C32: a session's socket is made, by start() or by requestPairingCode(),
\* only while a start() execution of that session holds a slot of the gate.
SocketsUnderGate ==
    [][\A u \in Users :
          (\/ PairingSocket(u, TRUE)
           \/ \E e \in Execs : e.user = u /\ StartFinish(e, TRUE)) =>
              \E e \in Execs : e.user = u /\ holding[e] > 0]_vars

\* C33: when the close handler of a socket that did not log out calls
\* ensureInstance(id) after its wait, the call goes on to make a socket, or
\* the id's registered instance holds a socket that is not closed.
CloseReplacesSocket ==
    [][\A id \in Ids, c \in CallIds :
          RetryHandled(id, c) =>
              \/ multi'.call[c].pc \in {"auth", "joined"}
              \/ multi'.instances[id] \in LiveOf(multi', id)]_vars

\* C34: a call ensureInstance(id, {forceNew: true}) starts the teardown of
\* the id's instance itself, or is handed the promise of a call that is in
\* its teardown.
ForceNewReplaces ==
    [][\A c \in CallIds, id \in Ids :
          EnsureInstance(c, id, TRUE, "force-qr") =>
              \/ multi'.call[c].pc = "destroy"
              \/ /\ multi'.call[c].pc = "joined"
                 /\ multi.call[multi'.call[c].run].pc
                        \in {"destroy", "logout"}]_vars

\* C35: while the id's registered instance holds a socket that is not
\* closed, the close handler of another (replaced) socket of the id neither
\* removes the instance from the map nor removes the id's credentials.
StaleCloseHarmless ==
    [][\A id \in Ids :
          (LogoutHandled(id) /\ multi.instances[id] \in LiveOf(multi, id)) =>
              /\ multi'.instances[id] = multi.instances[id]
              /\ multi'.auth[id] = multi.auth[id]]_vars

\* C36: in part_001, for an id that had no instance and was not taken down
\* since, the ensureInstance() calls, however they overlap, make one socket,
\* and every socket that is not closed is the one of the registered instance.
OneSocketOld ==
    \A id \in Ids :
        ~multi.torn[id] =>
            /\ Made(multi, id) <= 1
            /\ \A n \in LiveOf(multi, id) : multi.instances[id] = n

\* C37: the session of a tenant that /disconnect removed from the registry
\* has no pending timer that calls start() and no start() waiting at the gate
\* or running, so it makes no socket any more.
RemovedSessionInert ==
    \A u \in Users :
        ~registered[u] =>
            /\ PendingTimers(Cur, u) = 0
            /\ \A e \in Execs : e.user = u => holding[e] = 0
            /\ \A i \in DOMAIN queue : queue[i].user # u

\* C38: GET /qr for a tenant that is not connected, has stored credentials
\* and has no QR to return leaves the credentials in place.
QrKeepsCredentials ==
    [][\A u \in Users :
          (/\ ForceQR(u, "qr")
           /\ ~sess[u].isConnected
           /\ sess[u].connectionState = "disconnected"
           /\ creds[u]) => creds'[u]]_vars

\* C39: the gate's counter stays between 0 and maxConcurrent, it is the
\* number of acquire() calls that were resolved and not yet released, and
\* callers wait in the queue only while the gate is full.
SemaphoreInvariant ==
    /\ current \in 0..maxConcurrent
    /\ current = Sum(holding, DOMAIN holding)
    /\ queue # <<>> => current = maxConcurrent

\* a caller waits at the full gate after an earlier start() has released
GateFullAfterRelease ==
    /\ queue # <<>>
    /\ current = maxConcurrent
    /\ \E u \in Users : sess[u].sock # 0

\* C40: a requestPairingCode() call whose phone number has a rejected format
\* is settled with success false when its 3 s timer fires; that timer is set
\* only after the teardown, in which the socket the session held was ended
\* when the call began and the credentials were removed.
RejectedAfterTeardown ==
    /\ [][\A u \in Users :
              PairingTimer3(u, FALSE) => calls'[u].pr.result = "error"]_vars
    /\ [][\A u \in Users :
              (calls[u].pr.t3 # "on" /\ calls'[u].pr.t3 = "on") =>
                  calls[u].pr.pc = "cleaned"]_vars
    /\ [][\A u \in Users :
              (calls[u].pr.pc # "cleaned" /\ calls'[u].pr.pc = "cleaned") =>
                  ~creds'[u]]_vars
    /\ [][\A u \in Users :
              (RequestPairingCode(u) /\ registered[u] /\ sess[u].sock # 0) =>
                  socks'[sess[u].sock].st \notin {"connecting", "open"}]_vars

\* the 3 s timer has just rejected the phone number: the call is settled
\* with an error, an earlier socket is ended, the pairing socket is in its
\* handshake and no credentials are left
RejectedPhone ==
    /\ hist.last.op = "pairingRejected"
    /\ calls[hist.last.user].pr.result = "error"
    /\ ~creds[hist.last.user]
    /\ \E k \in SockIds : socks[k].st = "closed"
    /\ sess[hist.last.user].sock # 0
    /\ socks[sess[hist.last.user].sock].by = "pairing"
    /\ socks[sess[hist.last.user].sock].st = "connecting"
====
